---------------------------- MODULE Spec2Model ----------------------------
(***************************************************************************)
(* Model of the SRU Cyberspace Club web backend:                           *)
(*   security.py       SecurityManager (CSRF store, rate limiter,          *)
(*                     suspicious-request matcher, housekeeping)           *)
(*   secure_server.py  Flask application (gatekeeper security_checks,      *)
(*                     Flask-Limiter configuration, route handlers)        *)
(* Time is the value of time.time() in whole seconds.                      *)
(***************************************************************************)
EXTENDS Integers, Sequences, FiniteSets, TLC

VARIABLES
    now,              \* time.time()
    csrf_tokens,      \* SecurityManager.csrf_tokens : session id -> record
    rate_limit_data,  \* SecurityManager.rate_limit_data : ip -> list of times
    blocked_ips,      \* SecurityManager.blocked_ips
    nextToken,        \* how many tokens secrets.token_urlsafe has produced
    cfg,              \* (limit, window) the caller passes to rate_limit
    session,          \* the client's Flask session cookie: client -> session id
    limiter_storage,  \* Flask-Limiter's in-memory counters: key -> record
    threads,          \* worker threads inside rate_limit: thread -> frame
    served,           \* history: requests made per route, form submissions
    admitted,         \* history: ip -> times of the calls rate_limit admitted
    issued,           \* history: session id -> last token generated and when
    unswept,          \* history: the stores of the run without housekeeping
    last              \* history: the operation that produced this state

vars == <<now, csrf_tokens, rate_limit_data, blocked_ips, nextToken, cfg,
          session, limiter_storage, threads, served, admitted, issued,
          unswept, last>>

(* the state of the Flask application around the SecurityManager *)
appVars == <<session, limiter_storage, served>>

---------------------------------------------------------------------------
(* Python dict helpers *)

None == "None"

EmptyDict == [k \in {} |-> None]

Put(d, k, v) == [x \in (DOMAIN d) \cup {k} |-> IF x = k THEN v ELSE d[x]]

Del(d, k) == [x \in (DOMAIN d) \ {k} |-> d[x]]

Has(d, k) == k \in DOMAIN d

Occurrences(s, x) == Len(SelectSeq(s, LAMBDA e : e = x))

(* how many of the times in s are younger than window at time t *)
Younger(s, t, window) == Len(SelectSeq(s, LAMBDA e : t - e < window))

---------------------------------------------------------------------------
(* SecurityManager.rate_limit, security.py 107-126 *)

InWindowLe(current_time, req_time, window) == current_time - req_time <= window

InWindow(current_time, req_time, window) == current_time - req_time < window

LimitExceededGt(n, limit) == n > limit

LimitExceeded(n, limit) == n >= limit

(* lines 111-112 *)
RLCreate(data, ip) == IF Has(data, ip) THEN data ELSE Put(data, ip, <<>>)

(* lines 115-118: the list comprehension *)
RLFilter(list, current_time, window) ==
    SelectSeq(list, LAMBDA req_time : InWindow(current_time, req_time, window))

(* the whole call: the dict afterwards and the value returned *)
rate_limit(data, ip, limit, window, current_time) ==
    LET d1   == RLCreate(data, ip)
        kept == RLFilter(d1[ip], current_time, window)
        d2   == Put(d1, ip, kept)
    IN  IF LimitExceeded(Len(kept), limit)
        THEN [data |-> d2, result |-> FALSE]
        ELSE [data |-> Put(d2, ip, Append(kept, current_time)), result |-> TRUE]

---------------------------------------------------------------------------
(* SecurityManager.generate_csrf_token / validate_csrf_token,
   security.py 80-105 *)

CsrfTtl == 3600

(* secrets.token_urlsafe(32): 256 random bits, so the n-th draw differs from
   every earlier one; a token is named by the number of its draw *)
token_urlsafe(drawn) == drawn + 1

generate_csrf_token_keep(tokens, session_id, token, current_time) ==
    IF Has(tokens, session_id) THEN tokens
    ELSE Put(tokens, session_id, [token |-> token, timestamp |-> current_time])

generate_csrf_token(tokens, session_id, token, current_time) ==
    Put(tokens, session_id, [token |-> token, timestamp |-> current_time])

CsrfExpiredGe(current_time, timestamp) == current_time - timestamp >= CsrfTtl

CsrfExpired(current_time, timestamp) == current_time - timestamp > CsrfTtl

validate_csrf_token_expiry_first(tokens, session_id, token, current_time) ==
    IF ~Has(tokens, session_id)
    THEN [tokens |-> tokens, result |-> FALSE]
    ELSE IF CsrfExpired(current_time, tokens[session_id].timestamp)
    THEN [tokens |-> Del(tokens, session_id), result |-> FALSE]
    ELSE IF tokens[session_id].token # token
    THEN [tokens |-> tokens, result |-> FALSE]
    ELSE [tokens |-> tokens, result |-> TRUE]

(* the store afterwards and the value returned *)
validate_csrf_token(tokens, session_id, token, current_time) ==
    IF ~Has(tokens, session_id)
    THEN [tokens |-> tokens, result |-> FALSE]
    ELSE IF tokens[session_id].token # token
    THEN [tokens |-> tokens, result |-> FALSE]
    ELSE IF CsrfExpired(current_time, tokens[session_id].timestamp)
    THEN [tokens |-> Del(tokens, session_id), result |-> FALSE]
    ELSE [tokens |-> tokens, result |-> TRUE]

---------------------------------------------------------------------------
(* SecurityManager.clean_session_data, security.py 243-264 *)

CleanCsrfAge == 3600

CleanRateAge == 300

CleanCsrf(tokens, current_time) ==
    LET expired_sessions ==
            {sid \in DOMAIN tokens :
                current_time - tokens[sid].timestamp > CleanCsrfAge}
    IN  [sid \in (DOMAIN tokens) \ expired_sessions |-> tokens[sid]]

CleanRateAll(data, current_time) == EmptyDict

CleanRate(data, current_time) ==
    LET filtered == [ip \in DOMAIN data |->
                        SelectSeq(data[ip],
                            LAMBDA req_time : current_time - req_time < CleanRateAge)]
        live == {ip \in DOMAIN data : filtered[ip] # <<>>}
    IN  [ip \in live |-> filtered[ip]]

---------------------------------------------------------------------------
(* The clock: time.time() moves forward to one of the instants of a run *)

(* The history of admitted calls forgets the times that are older than the
   window: time only moves forward, so they never again count as younger
   than the window. *)
Forget(log, t, window) ==
    [ip \in DOMAIN log |-> SelectSeq(log[ip], LAMBDA e : t - e <= window)]

Advance(instants) ==
    /\ \E t \in instants : t > now /\ now' = t
    /\ admitted' = Forget(admitted, now', cfg.window)
    /\ served' = [served EXCEPT
                    !.forms = SelectSeq(@, LAMBDA e : now' - e <= cfg.window)]
    /\ last' = [op |-> "advance"]
    /\ UNCHANGED <<csrf_tokens, rate_limit_data, blocked_ips, nextToken, cfg,
                   session, limiter_storage, threads, issued, unswept>>

(* secure_server.py 75: time.time() % 300 < 1 *)
HousekeepingDue(current_time) == current_time % 300 < 1

(* clean_session_data run on its own *)
CleanSessionData ==
    /\ csrf_tokens' = CleanCsrf(csrf_tokens, now)
    /\ rate_limit_data' = CleanRate(rate_limit_data, now)
    /\ last' = [op |-> "clean_session_data"]
    /\ UNCHANGED <<now, blocked_ips, nextToken, cfg, appVars, unswept,
                   threads, admitted, issued>>

---------------------------------------------------------------------------
(* SpecRate: sequential callers of rate_limit with one (limit, window) *)

RateIPs == {"10.0.0.1", "10.0.0.2"}

(* The two configurations, and the identities that call under each *)
RateConfigs ==
    {[limit |-> 20, window |-> 60, callers |-> {"10.0.0.1"}],
     [limit |-> 5, window |-> 60, callers |-> RateIPs]}

RateInstants == {59, 60, 119, 360}

Sids == {"s1", "s2"}

NoThreads == [t \in {} |-> None]

(* request.form.get('csrf_token') of a form without the field *)
NoToken == 0

NoIssue == [any |-> FALSE, token |-> NoToken, timestamp |-> 0, uses |-> 0,
            earlier |-> {}]

NoRecord == [present |-> FALSE, token |-> NoToken, timestamp |-> 0]

(* what the store holds for a session, for the history *)
Stored(tokens, sid) ==
    IF Has(tokens, sid)
    THEN [present |-> TRUE, token |-> tokens[sid].token,
          timestamp |-> tokens[sid].timestamp]
    ELSE NoRecord

NoneServed == [index |-> 0, health |-> 0, forms |-> <<>>]

NoStores ==
    [csrf_tokens |-> EmptyDict, rate_limit_data |-> EmptyDict,
     blocked_ips |-> {}]

InitState ==
    /\ now = 0
    /\ csrf_tokens = EmptyDict
    /\ rate_limit_data = EmptyDict
    /\ blocked_ips = {}
    /\ nextToken = 0
    /\ session = EmptyDict
    /\ limiter_storage = EmptyDict
    /\ served = NoneServed
    /\ threads = NoThreads
    /\ issued = [sid \in Sids |-> NoIssue]
    /\ unswept = NoStores

InitCommon ==
    /\ InitState
    /\ last = [op |-> "init"]

InitRate ==
    /\ InitCommon
    /\ cfg \in RateConfigs
    /\ admitted = [ip \in RateIPs |-> <<>>]

RateLimitCall(ip) ==
    LET r == rate_limit(rate_limit_data, ip, cfg.limit, cfg.window, now)
    IN  /\ rate_limit_data' = r.data
        /\ admitted' = IF r.result
                        THEN [admitted EXCEPT ![ip] = Append(@, now)]
                        ELSE admitted
        /\ last' = [op |-> "rate_limit", ip |-> ip, result |-> r.result,
                    prior |-> Younger(admitted[ip], now, cfg.window),
                    pre |-> IF Has(rate_limit_data, ip)
                            THEN rate_limit_data[ip] ELSE <<>>]
        /\ UNCHANGED <<now, csrf_tokens, blocked_ips, nextToken, cfg, appVars, unswept, threads, issued>>

(* C1: a rate_limit call is admitted exactly when fewer than `limit` of the
   identity's previously admitted calls are younger than `window` seconds;
   an admitted call records its timestamp once, and a denied call records
   nothing. *)
C1_AdmitIffBelowLimit ==
    last.op = "rate_limit" =>
        LET list == rate_limit_data[last.ip]
        IN  /\ last.result = (last.prior < cfg.limit)
            /\ \A i \in 1..Len(list) :
                    Occurrences(list, list[i]) =
                        Occurrences(last.pre, list[i])
                        + (IF last.result /\ list[i] = now THEN 1 ELSE 0)
            /\ last.result => Occurrences(list, now) >= 1

(* an identity whose list held 20 admitted calls is admitted again once they
   are a full window old *)
C1_Witness ==
    /\ last.op = "rate_limit"
    /\ last.result
    /\ cfg.limit = 20
    /\ Len(last.pre) = cfg.limit
    /\ now - last.pre[1] = cfg.window

NextRate ==
    \/ \E ip \in cfg.callers : RateLimitCall(ip)
    \/ CleanSessionData
    \/ Advance(RateInstants)

SpecRate == InitRate /\ [][NextRate]_vars

---------------------------------------------------------------------------
(* SpecCsrf: callers of generate_csrf_token and validate_csrf_token *)

MaxTokens == 3

CsrfInstants == {1, 3600, 3601, 3602}

InitCsrf ==
    /\ InitCommon
    /\ cfg = [limit |-> 20, window |-> 60, callers |-> {}]
    /\ admitted = [ip \in RateIPs |-> <<>>]

GenerateCall(sid) ==
    /\ nextToken < MaxTokens
    /\ LET token == token_urlsafe(nextToken)
       IN  /\ nextToken' = token
           /\ csrf_tokens' = generate_csrf_token(csrf_tokens, sid, token, now)
           /\ issued' = [issued EXCEPT ![sid] =
                            [any |-> TRUE, token |-> token,
                             timestamp |-> now, uses |-> 0,
                             earlier |-> IF issued[sid].any
                                         THEN issued[sid].earlier
                                              \cup {issued[sid].token}
                                         ELSE {}]]
           /\ last' = [op |-> "generate_csrf_token", sid |-> sid,
                       token |-> token]
    /\ UNCHANGED <<now, rate_limit_data, blocked_ips, cfg, appVars, unswept, threads, admitted>>

(* the history counts the successful validations of the current token, up to 2 *)
Used(rec, token, ok) ==
    IF rec.any /\ ok /\ rec.token = token /\ rec.uses < 2
    THEN [rec EXCEPT !.uses = @ + 1] ELSE rec

ValidateCall(sid, token) ==
    LET r == validate_csrf_token(csrf_tokens, sid, token, now)
    IN  /\ csrf_tokens' = r.tokens
        /\ issued' = [issued EXCEPT ![sid] = Used(@, token, r.result)]
        /\ last' = [op |-> "validate_csrf_token", sid |-> sid,
                    token |-> token, result |-> r.result,
                    pre |-> Stored(csrf_tokens, sid)]
        /\ UNCHANGED <<now, rate_limit_data, blocked_ips, nextToken, cfg,
                       appVars, unswept, threads, admitted>>

(* C3: the token last generated for a session validates at every age up to
   3600 s, however often it was validated before and whatever housekeeping
   ran; at any age above 3600 s it is rejected and the session has no record
   afterwards. *)
C3_ValidUntilTtl ==
    (/\ last.op = "validate_csrf_token"
     /\ issued[last.sid].any
     /\ last.token = issued[last.sid].token) =>
        LET age == now - issued[last.sid].timestamp
        IN  /\ last.result = (age <= 3600)
            /\ age > 3600 => ~Has(csrf_tokens, last.sid)

(* a token validated twice before is rejected at age 3601 s and its record,
   still stored when the call began, is deleted by the call *)
C3_Witness ==
    /\ last.op = "validate_csrf_token"
    /\ ~last.result
    /\ last.pre.present
    /\ last.token = issued[last.sid].token
    /\ issued[last.sid].uses = 2
    /\ now - issued[last.sid].timestamp = 3601
    /\ ~Has(csrf_tokens, last.sid)

(* the call accepts exactly a stored record whose token is the presented one
   and whose age is at most 3600 s *)
AcceptsExactlyValid ==
    last.result = (/\ last.pre.present
                   /\ last.pre.token = last.token
                   /\ now - last.pre.timestamp <= 3600)

(* C4 as stated: a record is accepted only if the token matches and the age
   is at most 3600 s, and every failed validation of an existing record
   (expired or mismatched) removes the record. *)
C4_Original ==
    last.op = "validate_csrf_token" =>
        /\ AcceptsExactlyValid
        /\ (~last.result /\ last.pre.present) => ~Has(csrf_tokens, last.sid)

(* C4 amended: a record is accepted only if the token matches and the age is
   at most 3600 s; a validation that fails on an expired record whose token
   matches removes the record; a validation that fails because the token
   mismatches leaves the record as it was, expired or not. *)
C4_Amended ==
    last.op = "validate_csrf_token" =>
        /\ AcceptsExactlyValid
        /\ (/\ last.pre.present
            /\ last.pre.token = last.token
            /\ now - last.pre.timestamp > 3600) => ~Has(csrf_tokens, last.sid)
        /\ (last.pre.present /\ last.pre.token # last.token) =>
                Stored(csrf_tokens, last.sid) = last.pre

(* a mismatched token presented against an expired record: the record stays *)
C4_Witness ==
    /\ last.op = "validate_csrf_token"
    /\ ~last.result
    /\ last.pre.present
    /\ last.pre.token # last.token
    /\ now - last.pre.timestamp > 3600
    /\ Has(csrf_tokens, last.sid)

(* C5: a session has at most one active token: the store holds, per session,
   only the token generated last for it, and a validation succeeds only with
   that token, so earlier tokens of the session and tokens of other sessions
   are rejected. *)
C5_OnlyLatestTokenValidates ==
    /\ \A sid \in DOMAIN csrf_tokens :
            /\ issued[sid].any
            /\ csrf_tokens[sid].token = issued[sid].token
            /\ csrf_tokens[sid].timestamp = issued[sid].timestamp
    /\ (last.op = "validate_csrf_token" /\ last.result) =>
            /\ issued[last.sid].any
            /\ last.token = issued[last.sid].token

(* an earlier token of the session is rejected while the session's newer
   record is still fresh, and that token was also issued before to nobody
   else *)
C5_Witness ==
    /\ last.op = "validate_csrf_token"
    /\ ~last.result
    /\ last.token \in issued[last.sid].earlier
    /\ last.pre.present
    /\ now - last.pre.timestamp <= 3600
    /\ \E other \in Sids \ {last.sid} : issued[other].any

NextCsrf ==
    \/ \E sid \in Sids : GenerateCall(sid)
    \/ \E sid \in Sids, token \in (1..MaxTokens) \cup {NoToken} :
            ValidateCall(sid, token)
    \/ CleanSessionData
    \/ Advance(CsrfInstants)

SpecCsrf == InitCsrf /\ [][NextCsrf]_vars

---------------------------------------------------------------------------
(* SpecConc: worker threads of the threaded server (secure_server.py 254-259)
   inside rate_limit for one identity.  No lock guards rate_limit_data, so
   the statements of security.py 109-126 interleave; clean_session_data,
   which another worker's gatekeeper may run, is taken as one step.  A run
   starts after limit - 1 calls of the identity were admitted one after the
   other at time 0. *)

Workers == {"w1", "w2"}

ConcIP == "10.0.0.1"

ConcInstants == {60, 300}

MaxCallsPerWorker == 2

(* the list after n admitted calls made one after the other at time 0 *)
Prefilled(n) == [i \in 1..n |-> 0]

IdleFrame == [pc |-> "idle", current_time |-> 0, kept |-> <<>>, calls |-> 0]

(* the frame of a worker that has left rate_limit *)
Returned(frame) == [IdleFrame EXCEPT !.calls = frame.calls]

InitConc ==
    /\ cfg = [limit |-> 20, window |-> 60, callers |-> {ConcIP}]
    /\ now = 0
    /\ csrf_tokens = EmptyDict
    /\ rate_limit_data = Put(EmptyDict, ConcIP, Prefilled(cfg.limit - 1))
    /\ blocked_ips = {}
    /\ nextToken = 0
    /\ session = EmptyDict
    /\ limiter_storage = EmptyDict
    /\ served = NoneServed
    /\ issued = [sid \in Sids |-> NoIssue]
    /\ unswept = NoStores
    /\ last = [op |-> "init"]
    /\ admitted = [ip \in RateIPs |->
                      IF ip = ConcIP THEN Prefilled(cfg.limit - 1) ELSE <<>>]
    /\ threads = [w \in Workers |-> IdleFrame]

ConcUnchanged ==
    UNCHANGED <<now, csrf_tokens, blocked_ips, nextToken, cfg, appVars, unswept, issued>>

(* line 109: current_time = time.time() *)
StepEnter(w) ==
    /\ threads[w].pc = "idle"
    /\ threads[w].calls < MaxCallsPerWorker
    /\ threads' = [threads EXCEPT ![w] =
                      [pc |-> "create", current_time |-> now, kept |-> <<>>,
                       calls |-> threads[w].calls + 1]]
    /\ last' = [op |-> "enter", worker |-> w]
    /\ UNCHANGED <<rate_limit_data, admitted>>
    /\ ConcUnchanged

(* lines 111-112 *)
StepCreate(w) ==
    /\ threads[w].pc = "create"
    /\ rate_limit_data' = RLCreate(rate_limit_data, ConcIP)
    /\ threads' = [threads EXCEPT ![w].pc = "filter"]
    /\ last' = [op |-> "create", worker |-> w]
    /\ UNCHANGED admitted
    /\ ConcUnchanged

(* lines 116-118: the comprehension reads the list; KeyError without the key *)
StepFilter(w) ==
    /\ threads[w].pc = "filter"
    /\ IF Has(rate_limit_data, ConcIP)
       THEN /\ threads' = [threads EXCEPT
                    ![w].pc = "assign",
                    ![w].kept = RLFilter(rate_limit_data[ConcIP],
                                         threads[w].current_time, cfg.window)]
            /\ last' = [op |-> "filter", worker |-> w]
       ELSE /\ threads' = [threads EXCEPT ![w] = Returned(@)]
            /\ last' = [op |-> "KeyError", worker |-> w]
    /\ UNCHANGED <<rate_limit_data, admitted>>
    /\ ConcUnchanged

(* line 115: the new list is stored *)
StepAssign(w) ==
    /\ threads[w].pc = "assign"
    /\ rate_limit_data' = Put(rate_limit_data, ConcIP, threads[w].kept)
    /\ threads' = [threads EXCEPT ![w].pc = "check"]
    /\ last' = [op |-> "assign", worker |-> w]
    /\ UNCHANGED admitted
    /\ ConcUnchanged

(* lines 121-122 *)
StepCheck(w) ==
    /\ threads[w].pc = "check"
    /\ IF ~Has(rate_limit_data, ConcIP)
       THEN /\ threads' = [threads EXCEPT ![w] = Returned(@)]
            /\ last' = [op |-> "KeyError", worker |-> w]
       ELSE IF LimitExceeded(Len(rate_limit_data[ConcIP]), cfg.limit)
       THEN /\ threads' = [threads EXCEPT ![w] = Returned(@)]
            /\ last' = [op |-> "return", worker |-> w, result |-> FALSE]
       ELSE /\ threads' = [threads EXCEPT ![w].pc = "append"]
            /\ last' = [op |-> "check", worker |-> w]
    /\ UNCHANGED <<rate_limit_data, admitted>>
    /\ ConcUnchanged

(* lines 125-126 *)
StepAppend(w) ==
    /\ threads[w].pc = "append"
    /\ IF ~Has(rate_limit_data, ConcIP)
       THEN /\ last' = [op |-> "KeyError", worker |-> w]
            /\ UNCHANGED <<rate_limit_data, admitted>>
       ELSE /\ rate_limit_data' =
                    Put(rate_limit_data, ConcIP,
                        Append(rate_limit_data[ConcIP], threads[w].current_time))
            /\ admitted' = [admitted EXCEPT ![ConcIP] =
                                Append(@, threads[w].current_time)]
            /\ last' = [op |-> "return", worker |-> w, result |-> TRUE]
    /\ threads' = [threads EXCEPT ![w] = Returned(@)]
    /\ ConcUnchanged

(* secure_server.py 75-76, run by another worker's gatekeeper *)
GatekeeperHousekeeping ==
    /\ HousekeepingDue(now)
    /\ CleanSessionData

NextConc ==
    \/ \E w \in Workers : StepEnter(w)
    \/ \E w \in Workers : StepCreate(w)
    \/ \E w \in Workers : StepFilter(w)
    \/ \E w \in Workers : StepAssign(w)
    \/ \E w \in Workers : StepCheck(w)
    \/ \E w \in Workers : StepAppend(w)
    \/ GatekeeperHousekeeping
    \/ Advance(ConcInstants)

SpecConc == InitConc /\ [][NextConc]_vars

(* every admitted call begins at most `limit` admitted calls of the identity
   in the `window` seconds that follow it *)
WithinLimit(ip) ==
    \A i \in 1..Len(admitted[ip]) :
        Len(SelectSeq(admitted[ip],
                LAMBDA e : e >= admitted[ip][i]
                           /\ e - admitted[ip][i] < cfg.window)) <= cfg.limit

(* with no call in progress, every admitted timestamp younger than the window
   and younger than housekeeping's 300 s is still in the identity's list *)
NothingLost(ip) ==
    (\A w \in Workers : threads[w].pc = "idle") =>
        \A i \in 1..Len(admitted[ip]) :
            LET e == admitted[ip][i]
            IN  (now - e < cfg.window /\ now - e < 300) =>
                    /\ Has(rate_limit_data, ip)
                    /\ Occurrences(rate_limit_data[ip], e)
                           >= Occurrences(admitted[ip], e)

(* C2: under concurrent rate_limit calls for one identity, no sliding window
   holds more than `limit` admitted calls, no admitted timestamp is lost, and
   no call fails because of another thread's update. *)
C2_ConcurrentLinearizable ==
    /\ WithinLimit(ConcIP)
    /\ NothingLost(ConcIP)
    /\ last.op # "KeyError"

---------------------------------------------------------------------------
(* SecurityManager.is_suspicious_request, security.py 128-186.  A text is a
   sequence of fragments; a signature occurs in a text when one of the
   fragments, lowercased, is that signature. *)

SuspiciousPatterns ==
    {"<script", "javascript:", "vbscript:", "data:", "<iframe", "<object",
     "<embed", "<form", "<input", "<textarea", "<select", "<button", "<link",
     "<meta", "<style", "<base", "<bgsound", "<title", "<xmp", "<plaintext",
     "<listing", "<marquee", "<applet", "<param", "<basefont", "<isindex",
     "<dir", "<menu", "<nextid", "<comment"}

(* str.lower, on the fragments that requests carry *)
Lower(fragment) ==
    CASE fragment = "JavaScript:" -> "javascript:"
      [] fragment = "<SCRIPT" -> "<script"
      [] fragment = "<Request '" -> "<request '"
      [] fragment = "GET" -> "get"
      [] fragment = "POST" -> "post"
      [] OTHER -> fragment

is_suspicious_request(request_str) ==
    \E i \in 1..Len(request_str) : Lower(request_str[i]) \in SuspiciousPatterns

(* str(request): werkzeug's Request defines only __repr__, which prints the
   class name, the URL and the method; line 180 applies str() to the request
   object that line 65 of secure_server.py passes in *)
StrOfRequest(req) == <<"<Request '">> \o req.url \o <<"' [", req.method, "]>">>

(* the text of everything the client sent *)
FullText(req) == req.url \o req.headers \o req.body

---------------------------------------------------------------------------
(* SecurityManager.validate_name, validate_email: security.py 38-78.  A field
   value is described by its length and by what the regular expressions of
   lines 44, 49-56 and 70 find in it. *)

validate_name(name) ==
    /\ name.len # 0
    /\ name.letters
    /\ ~(name.len < 2 \/ name.len > 50)

validate_email(email) ==
    /\ email.len # 0
    /\ email.shape
    /\ ~email.marker

Years == {"freshman", "sophomore", "junior", "senior", "graduate"}

---------------------------------------------------------------------------
(* Flask-Limiter as configured at secure_server.py 31-36 and 161: in-memory
   storage, fixed windows that open at the first hit.  The default limits
   count each route of an identity separately and are checked by the
   limiter's before_request hook, registered at line 32 and so run before
   security_checks; the limit of a decorated route replaces the defaults and
   is checked when the view is called. *)

DefaultLimitsDailyOnly == <<[amount |-> 200, period |-> 86400]>>

DefaultLimits ==
    <<[amount |-> 50, period |-> 3600], [amount |-> 200, period |-> 86400]>>

FormLimits == <<[amount |-> 5, period |-> 60]>>

(* one hit: the counter afterwards (it stops one above the amount, where
   every further hit is refused all the same) and whether the hit is within
   the limit *)
LimiterHit(storage, key, lim, current_time) ==
    LET open == IF Has(storage, key) /\ storage[key].expiry > current_time
                THEN storage[key]
                ELSE [count |-> 0, expiry |-> current_time + lim.period]
        count == open.count + 1
    IN  [storage |-> Put(storage, key,
                         [count |-> IF count > lim.amount
                                    THEN lim.amount + 1 ELSE count,
                          expiry |-> open.expiry]),
         ok |-> count <= lim.amount]

RECURSIVE HitAll(_, _, _, _, _)
HitAll(storage, ip, endpoint, limits, current_time) ==
    IF limits = <<>>
    THEN [storage |-> storage, ok |-> TRUE]
    ELSE LET h == LimiterHit(storage, <<ip, endpoint, Head(limits).period>>,
                             Head(limits), current_time)
             rest == HitAll(h.storage, ip, endpoint, Tail(limits), current_time)
         IN  [storage |-> rest.storage, ok |-> h.ok /\ rest.ok]

---------------------------------------------------------------------------
(* security_checks, secure_server.py 47-80 *)

BroadLimit == 20

BroadWindow == 60

(* uuid.uuid4() at line 72: an identifier no other client has *)
uuid4(client) == "s1"

(* line 78: abort() raises a werkzeug HTTPException, which is an Exception,
   so the except clause catches the aborts of lines 57, 62 and 68 and
   line 80 answers 500; 0 stands for no exception *)
ExceptException(raised) == IF raised # 0 THEN 500 ELSE 0

IsBlockedNever(blocked, client_ip) == FALSE

(* line 55 *)
IsBlocked(blocked, client_ip) == client_ip \in blocked

(* lines 50-76, the body of the try: the state afterwards and the code of
   the abort() it called, 0 when it called none *)
TryChecks(data, blocked, tokens, cookies, client_ip, req, current_time) ==
    IF IsBlocked(blocked, client_ip)
    THEN [rate_limit_data |-> data, blocked_ips |-> blocked,
          csrf_tokens |-> tokens, session |-> cookies, aborted |-> 403,
          limited |-> FALSE, recorded |-> FALSE]
    ELSE
    LET r == rate_limit(data, client_ip, BroadLimit, BroadWindow, current_time)
    IN  IF ~r.result
        THEN [rate_limit_data |-> r.data, blocked_ips |-> blocked,
              csrf_tokens |-> tokens, session |-> cookies, aborted |-> 429,
              limited |-> TRUE, recorded |-> FALSE]
        ELSE IF is_suspicious_request(StrOfRequest(req))
        THEN [rate_limit_data |-> r.data,
              blocked_ips |-> blocked \cup {client_ip},
              csrf_tokens |-> tokens, session |-> cookies, aborted |-> 400,
              limited |-> FALSE, recorded |-> TRUE]
        ELSE [rate_limit_data |-> IF HousekeepingDue(current_time)
                                  THEN CleanRate(r.data, current_time)
                                  ELSE r.data,
              blocked_ips |-> blocked,
              csrf_tokens |-> IF HousekeepingDue(current_time)
                              THEN CleanCsrf(tokens, current_time)
                              ELSE tokens,
              session |-> IF Has(cookies, client_ip) THEN cookies
                          ELSE Put(cookies, client_ip, uuid4(client_ip)),
              aborted |-> 0, limited |-> FALSE, recorded |-> TRUE]

(* the error handlers, secure_server.py 210-234 *)
ErrorBody(code) ==
    CASE code = 400 -> "Bad request"
      [] code = 403 -> "Access forbidden"
      [] code = 404 -> "Resource not found"
      [] code = 429 -> "Too many requests. Please try again later."
      [] code = 500 -> "Internal server error"

---------------------------------------------------------------------------
(* the route handlers, secure_server.py 109-208 *)

NoCalls == <<>>

submit_form_name_first(tokens, session_id, form, current_time) ==
    LET v == validate_csrf_token(tokens, session_id, form.csrf_token,
                                 current_time)
    IN  IF ~validate_name(form.name)
        THEN [csrf_tokens |-> tokens, status |-> 400,
              body |-> "Invalid name format", calls |-> <<"validate_name">>]
        ELSE IF ~v.result
        THEN [csrf_tokens |-> v.tokens, status |-> 403,
              body |-> "Invalid request",
              calls |-> <<"validate_name", "validate_csrf_token">>]
        ELSE IF ~validate_email(form.email)
        THEN [csrf_tokens |-> v.tokens, status |-> 400,
              body |-> "Invalid email format",
              calls |-> <<"validate_name", "validate_csrf_token",
                          "validate_email">>]
        ELSE IF form.year \notin Years
        THEN [csrf_tokens |-> v.tokens, status |-> 400,
              body |-> "Invalid year selection",
              calls |-> <<"validate_name", "validate_csrf_token",
                          "validate_email">>]
        ELSE [csrf_tokens |-> v.tokens, status |-> 200,
              body |-> "success",
              calls |-> <<"validate_name", "validate_csrf_token",
                          "validate_email", "sanitize_input",
                          "sanitize_input">>]

(* lines 162-203: the store afterwards, the response, and the
   SecurityManager methods called, in order *)
submit_form(tokens, session_id, form, current_time) ==
    LET v == validate_csrf_token(tokens, session_id, form.csrf_token,
                                 current_time)
    IN  IF ~v.result
        THEN [csrf_tokens |-> v.tokens, status |-> 403,
              body |-> "Invalid request",
              calls |-> <<"validate_csrf_token">>]
        ELSE IF ~validate_name(form.name)
        THEN [csrf_tokens |-> v.tokens, status |-> 400,
              body |-> "Invalid name format",
              calls |-> <<"validate_csrf_token", "validate_name">>]
        ELSE IF ~validate_email(form.email)
        THEN [csrf_tokens |-> v.tokens, status |-> 400,
              body |-> "Invalid email format",
              calls |-> <<"validate_csrf_token", "validate_name",
                          "validate_email">>]
        ELSE IF form.year \notin Years
        THEN [csrf_tokens |-> v.tokens, status |-> 400,
              body |-> "Invalid year selection",
              calls |-> <<"validate_csrf_token", "validate_name",
                          "validate_email">>]
        ELSE [csrf_tokens |-> v.tokens, status |-> 200,
              body |-> "success",
              calls |-> <<"validate_csrf_token", "validate_name",
                          "validate_email", "sanitize_input",
                          "sanitize_input">>]

---------------------------------------------------------------------------
(* One request, from the limiter's hook to the response:
   secure_server.py 31-36, 47-80, 109-128, 160-234 *)

ServerIP == "10.0.0.1"

MaxIndexRequests == 2

(* the n-th request of a route is remembered up to one above the hourly
   amount *)
Counted(n) == IF n > 50 THEN n ELSE n + 1

HandleRequest(ip, req) ==
    \E mw \in {IF req.route = "submit_form"
              THEN [storage |-> limiter_storage, ok |-> TRUE]
              ELSE HitAll(limiter_storage, ip, req.route, DefaultLimits, now)} :
    \E g \in {TryChecks(rate_limit_data, blocked_ips, csrf_tokens, session,
                       ip, req, now)} :
    \E vw \in {IF req.route = "submit_form"
              THEN HitAll(mw.storage, ip, req.route, FormLimits, now)
              ELSE [storage |-> mw.storage, ok |-> TRUE]} :
    LET decorated == req.route = "submit_form"
        gate == ExceptException(g.aborted)
        sid == uuid4(ip)
        token == token_urlsafe(nextToken)
        h == CASE req.route = "index" ->
                    [csrf_tokens |-> generate_csrf_token(g.csrf_tokens,
                                         g.session[ip], token, now),
                     status |-> 200, body |-> "index.html",
                     calls |-> <<"generate_csrf_token">>]
               [] req.route = "health" ->
                    [csrf_tokens |-> g.csrf_tokens, status |-> 200,
                     body |-> "healthy", calls |-> NoCalls]
               [] req.route = "submit_form" ->
                    submit_form(g.csrf_tokens, g.session[ip], req.form, now)
        stage == IF ~mw.ok THEN "limiter_default"
                 ELSE IF gate # 0 THEN "gatekeeper"
                 ELSE IF ~vw.ok THEN "limiter_form"
                 ELSE "handler"
        history == [op |-> "request", ip |-> ip, route |-> req.route,
                    suspiciousAnywhere |-> is_suspicious_request(FullText(req)),
                    suspiciousUrl |-> is_suspicious_request(req.url),
                    nameOk |-> validate_name(req.form.name),
                    emailOk |-> validate_email(req.form.email),
                    yearOk |-> req.form.year \in Years,
                    tokenStale |-> /\ issued[sid].any
                                   /\ req.form.csrf_token = issued[sid].token
                                   /\ now - issued[sid].timestamp > 3600,
                    preBlocked |-> ip \in blocked_ips,
                    priorBroad |-> Younger(admitted[ip], now, 60),
                    priorRoute |-> IF req.route = "index" THEN served.index
                                   ELSE IF req.route = "health"
                                   THEN served.health ELSE 0,
                    priorForms |-> Younger(served.forms, now, 60),
                    preStore |-> csrf_tokens,
                    tokenValid |-> /\ issued[sid].any
                                   /\ req.form.csrf_token = issued[sid].token
                                   /\ now - issued[sid].timestamp <= 3600,
                    stage |-> stage]
    IN
    /\ req.route = "index" => served.index < MaxIndexRequests
    /\ served' = [index |-> IF req.route = "index"
                            THEN Counted(served.index) ELSE served.index,
                  health |-> IF req.route = "health"
                             THEN Counted(served.health) ELSE served.health,
                  forms |-> IF stage \in {"limiter_form", "handler"}
                               /\ decorated /\ Len(served.forms) <= FormLimits[1].amount
                            THEN Append(served.forms, now)
                            ELSE served.forms]
    /\ CASE stage = "limiter_default" ->
              /\ limiter_storage' = mw.storage
              /\ last' = history @@
                         [status |-> 429, body |-> ErrorBody(429),
                          aborted |-> 0, gate |-> "not run",
                          handler |-> FALSE, calls |-> NoCalls,
                          recorded |-> FALSE, scanned |-> FALSE]
              /\ UNCHANGED <<csrf_tokens, rate_limit_data, blocked_ips,
                             nextToken, session, admitted, issued>>
         [] stage = "gatekeeper" ->
              /\ limiter_storage' = mw.storage
              /\ rate_limit_data' = g.rate_limit_data
              /\ blocked_ips' = g.blocked_ips
              /\ admitted' = IF g.recorded
                             THEN [admitted EXCEPT ![ip] = Append(@, now)]
                             ELSE admitted
              /\ last' = history @@
                         [status |-> gate, body |-> ErrorBody(gate),
                          aborted |-> g.aborted, gate |-> "block",
                          handler |-> FALSE, calls |-> NoCalls,
                          recorded |-> g.recorded,
                          scanned |-> g.aborted = 400]
              /\ UNCHANGED <<csrf_tokens, nextToken, session, issued>>
         [] stage = "limiter_form" ->
              /\ limiter_storage' = vw.storage
              /\ rate_limit_data' = g.rate_limit_data
              /\ csrf_tokens' = g.csrf_tokens
              /\ session' = g.session
              /\ admitted' = [admitted EXCEPT ![ip] = Append(@, now)]
              /\ last' = history @@
                         [status |-> 429, body |-> ErrorBody(429),
                          aborted |-> 0, gate |-> "admit",
                          handler |-> FALSE, calls |-> NoCalls,
                          recorded |-> TRUE, scanned |-> TRUE]
              /\ UNCHANGED <<blocked_ips, nextToken, issued>>
         [] stage = "handler" ->
              /\ limiter_storage' = vw.storage
              /\ rate_limit_data' = g.rate_limit_data
              /\ csrf_tokens' = h.csrf_tokens
              /\ session' = g.session
              /\ admitted' = [admitted EXCEPT ![ip] = Append(@, now)]
              /\ nextToken' = IF req.route = "index" THEN token ELSE nextToken
              /\ issued' =
                    IF req.route = "index"
                    THEN [issued EXCEPT ![sid] =
                            [any |-> TRUE, token |-> token,
                             timestamp |-> now, uses |-> 0,
                             earlier |-> IF issued[sid].any
                                         THEN issued[sid].earlier
                                              \cup {issued[sid].token}
                                         ELSE {}]]
                    ELSE IF req.route = "submit_form"
                    THEN [issued EXCEPT ![sid] =
                            Used(@, req.form.csrf_token,
                                 Len(h.calls) > 1)]
                    ELSE issued
              /\ last' = history @@
                         [status |-> h.status, body |-> h.body,
                          aborted |-> 0, gate |-> "admit",
                          handler |-> TRUE, calls |-> h.calls,
                          recorded |-> TRUE, scanned |-> TRUE]
              /\ UNCHANGED blocked_ips
    /\ UNCHANGED <<now, cfg, threads, unswept>>

---------------------------------------------------------------------------
(* The requests of a run.  URLs carry only signatures that werkzeug leaves
   unescaped in request.url (the scheme markers); markup appears in headers
   and bodies. *)

NoField == [len |-> 0, letters |-> FALSE]

NoEmail == [len |-> 0, shape |-> FALSE, marker |-> FALSE]

NoForm == [csrf_token |-> NoToken, name |-> NoField, email |-> NoEmail,
           year |-> ""]

GetIndex ==
    [route |-> "index", method |-> "GET", url |-> <<"/">>,
     headers |-> <<>>, body |-> <<>>, form |-> NoForm]

GetHealth ==
    [route |-> "health", method |-> "GET", url |-> <<"/health">>,
     headers |-> <<>>, body |-> <<>>, form |-> NoForm]


GoodName == [len |-> 13, letters |-> TRUE]

GoodEmail == [len |-> 16, shape |-> TRUE, marker |-> FALSE]

FieldSets ==
    {[name |-> GoodName, email |-> GoodEmail, year |-> "junior"],
     [name |-> [len |-> 2, letters |-> FALSE], email |-> GoodEmail,
      year |-> "junior"],
     [name |-> GoodName, email |-> [GoodEmail EXCEPT !.shape = FALSE],
      year |-> "junior"],
     [name |-> GoodName, email |-> GoodEmail, year |-> "alumni"],
     [name |-> [len |-> 51, letters |-> TRUE], email |-> NoEmail,
      year |-> ""]}

PostForm(token, fields, headers, body) ==
    [route |-> "submit_form", method |-> "POST", url |-> <<"/submit-form">>,
     headers |-> headers, body |-> body,
     form |-> [csrf_token |-> token, name |-> fields.name,
               email |-> fields.email, year |-> fields.year]]

FormPosts ==
    {PostForm(token, fields, <<>>, <<"name=", "email=", "year=">>) :
        token \in (1..MaxIndexRequests) \cup {NoToken}, fields \in FieldSets}

ScriptBodyPost ==
    PostForm(NoToken,
             [name |-> [len |-> 25, letters |-> FALSE], email |-> GoodEmail,
              year |-> "junior"],
             <<>>, <<"name=", "<script", ">alert(1)</script>">>)

SchemeUrlPost ==
    [PostForm(NoToken,
              [name |-> GoodName, email |-> GoodEmail, year |-> "junior"],
              <<>>, <<"name=">>)
        EXCEPT !.url = <<"/submit-form?next=", "JavaScript:", "alert(1)">>]

IframeHeaderPost ==
    PostForm(NoToken,
             [name |-> GoodName, email |-> GoodEmail, year |-> "junior"],
             <<"Referer: ", "<iframe", " src=x>">>, <<"name=">>)

GateRequests ==
    {GetIndex, SchemeUrlPost, ScriptBodyPost, IframeHeaderPost}
    \cup FormPosts

GateInstants == {3700, 3900}

InitServer ==
    /\ InitCommon
    /\ cfg = [limit |-> BroadLimit, window |-> BroadWindow, callers |-> {}]
    /\ admitted = [ip \in RateIPs |-> <<>>]

NextGate ==
    \/ \E req \in GateRequests : HandleRequest(ServerIP, req)
    \/ Advance(GateInstants)

SpecGate == InitServer /\ [][NextGate]_vars

ThrottleRequests ==
    {GetHealth,
     PostForm(NoToken,
              [name |-> GoodName, email |-> GoodEmail, year |-> "junior"],
              <<>>, <<"name=", "email=", "year=">>)}

ThrottleInstants == {61}

NextThrottle ==
    \/ \E req \in ThrottleRequests : HandleRequest(ServerIP, req)
    \/ Advance(ThrottleInstants)

SpecThrottle == InitServer /\ [][NextThrottle]_vars

---------------------------------------------------------------------------
(* Claims about the gatekeeper and the routes *)

(* the last step was a request that the limiter's hook let through to
   security_checks *)
GateRan == last.op = "request" /\ last.gate # "not run"

(* C6: a request with suspicious content anywhere in it (path, query,
   headers, body), from an identity that is neither blocked nor rate
   limited, puts the identity on the BlockList and is answered 400; every
   request of a blocked identity is answered 403. *)
C6_SuspiciousBlockedThen403 ==
    GateRan =>
        /\ (~last.preBlocked /\ last.priorBroad < 20
            /\ last.suspiciousAnywhere) =>
                (last.ip \in blocked_ips /\ last.status = 400)
        /\ last.preBlocked => last.status = 403

(* C7: the checks run in the order blocklist, rate limit, scan, session
   setup; the first failing check decides 403, 429 or 400 and stops the
   pipeline: a blocked identity records no timestamp, a rate-limited request
   is not scanned and blocks nobody, and no blocked or denied request
   reaches a route handler. *)
C7_OrderAndCodes ==
    GateRan =>
        /\ last.preBlocked =>
                (last.status = 403 /\ ~last.recorded /\ ~last.handler)
        /\ (~last.preBlocked /\ last.priorBroad >= 20) =>
                (/\ last.status = 429
                 /\ ~last.scanned
                 /\ last.ip \notin blocked_ips
                 /\ ~last.handler)
        /\ (~last.preBlocked /\ last.priorBroad < 20 /\ last.suspiciousUrl) =>
                (last.status = 400 /\ ~last.handler)
        /\ (~last.preBlocked /\ last.priorBroad < 20 /\ ~last.suspiciousUrl) =>
                last.gate = "admit"

(* C8: the gatekeeper ends in exactly one of BLOCK(403), BLOCK(429),
   BLOCK(400), BLOCK(500) or ADMIT; BLOCK(500) is the outcome of an unhandled
   fault, never of a block decision, and then no route handler runs and the
   body is the generic one. *)
C8_FaultOnly500 ==
    GateRan =>
        /\ last.gate \in {"block", "admit"}
        /\ last.gate = "block" => last.status \in {403, 429, 400, 500}
        /\ (last.gate = "block" /\ last.status = 500) =>
                (/\ last.aborted = 0
                 /\ ~last.handler
                 /\ last.body = "Internal server error")

(* the CSRF store after the request is the store before it, less records
   older than 3600 s *)
OnlyExpiredDeleted ==
    /\ DOMAIN csrf_tokens \subseteq DOMAIN last.preStore
    /\ \A sid \in DOMAIN last.preStore :
            IF Has(csrf_tokens, sid)
            THEN csrf_tokens[sid] = last.preStore[sid]
            ELSE now - last.preStore[sid].timestamp > 3600

(* C9: an admitted POST /submit-form is decided in the order CSRF, name,
   email, year, returning at the first failure: an invalid token gives 403
   "Invalid request" with no other validation or sanitization invoked; then
   400 with the error of the first invalid field; only when all four pass
   are the fields sanitized and 200 returned.  No outcome changes the CSRF
   store except by deleting an expired record. *)
C9_FormCheckOrder ==
    (last.op = "request" /\ last.route = "submit_form") =>
        /\ OnlyExpiredDeleted
        /\ last.stage = "handler" =>
            /\ ~last.tokenValid =>
                    (/\ last.status = 403
                     /\ last.body = "Invalid request"
                     /\ last.calls = <<"validate_csrf_token">>)
            /\ (last.tokenValid /\ ~last.nameOk) =>
                    (/\ last.status = 400
                     /\ last.body = "Invalid name format"
                     /\ last.calls = <<"validate_csrf_token", "validate_name">>)
            /\ (last.tokenValid /\ last.nameOk /\ ~last.emailOk) =>
                    (/\ last.status = 400
                     /\ last.body = "Invalid email format"
                     /\ "sanitize_input" \notin
                            {last.calls[i] : i \in 1..Len(last.calls)})
            /\ (last.tokenValid /\ last.nameOk /\ last.emailOk
                /\ ~last.yearOk) =>
                    (/\ last.status = 400
                     /\ last.body = "Invalid year selection"
                     /\ "sanitize_input" \notin
                            {last.calls[i] : i \in 1..Len(last.calls)})
            /\ (last.tokenValid /\ last.nameOk /\ last.emailOk
                /\ last.yearOk) =>
                    (/\ last.status = 200
                     /\ last.body = "success"
                     /\ last.calls =
                            <<"validate_csrf_token", "validate_name",
                              "validate_email", "sanitize_input",
                              "sanitize_input">>)

(* an admitted form post presents the session's token when it is stale: 403,
   and the expired record, still stored when the request came, is gone *)
C9_Witness ==
    /\ last.op = "request"
    /\ last.route = "submit_form"
    /\ last.stage = "handler"
    /\ last.status = 403
    /\ last.tokenStale
    /\ Has(last.preStore, uuid4(last.ip))
    /\ ~Has(csrf_tokens, uuid4(last.ip))

(* the narrow limit refuses a form submission only when 5 form submissions
   of the identity fall in the trailing minute *)
NarrowOnlyAfterFive ==
    (last.route = "submit_form" /\ last.stage = "limiter_form") =>
        last.priorForms >= 5

(* C10 as stated: exactly two throttles apply; a clean request of a
   non-blocked identity to a non-form route is admitted whenever fewer than
   20 of its requests were admitted in the trailing 60 s, whatever its totals
   over the hour or the day. *)
C10_Original ==
    last.op = "request" =>
        /\ (/\ last.route # "submit_form"
            /\ ~last.suspiciousAnywhere
            /\ ~last.preBlocked
            /\ last.priorBroad < 20) => (last.handler /\ last.status = 200)
        /\ NarrowOnlyAfterFive

(* C10 amended: besides the broad and the narrow throttle, the limiter's
   default limits count the identity's requests to each non-form route, so
   such a request is admitted when fewer than 20 of the identity's requests
   were admitted in the trailing 60 s and fewer than 50 requests to that
   route were made in the trailing hour; with 50 or more in the hour it is
   refused with 429 before security_checks runs.  (Every instant of a run of
   SpecThrottle lies within its first hour.) *)
C10_Amended ==
    last.op = "request" =>
        /\ (/\ last.route # "submit_form"
            /\ ~last.suspiciousAnywhere
            /\ ~last.preBlocked
            /\ last.priorBroad < 20
            /\ last.priorRoute < 50) => (last.handler /\ last.status = 200)
        /\ (last.route # "submit_form" /\ last.priorRoute >= 50
            /\ now < 3600) =>
                (/\ last.status = 429
                 /\ last.gate = "not run"
                 /\ ~last.handler)
        /\ NarrowOnlyAfterFive

(* the 51st request to /health within the hour is refused although none of
   the identity's requests was admitted in the trailing 60 s *)
C10_Witness ==
    /\ last.op = "request"
    /\ last.route = "health"
    /\ last.priorRoute >= 50
    /\ last.priorBroad = 0
    /\ last.status = 429

---------------------------------------------------------------------------
(* SecurityManager.sanitize_input: security.py 14-36.  A text is the sequence
   of its characters. *)

(* the words of lines 20 and 30 *)
JAVASCRIPT == <<"j", "a", "v", "a", "s", "c", "r", "i", "p", "t", ":">>

VBSCRIPT == <<"v", "b", "s", "c", "r", "i", "p", "t", ":">>

ONLOAD == <<"o", "n", "l", "o", "a", "d">>

ONERROR == <<"o", "n", "e", "r", "r", "o", "r">>

SCRIPT_OPEN == <<"<", "s", "c", "r", "i", "p", "t">>

SCRIPT_CLOSE == <<"<", "/", "s", "c", "r", "i", "p", "t", ">">>

(* str.startswith at the head of s *)
StartsWith(s, word) ==
    /\ Len(s) >= Len(word)
    /\ \A i \in 1..Len(word) : s[i] = word[i]

(* str.replace(word, ''): the occurrences of word, left to right and not
   overlapping, are dropped *)
RECURSIVE Remove(_, _)
Remove(s, word) ==
    IF Len(s) < Len(word) THEN s
    ELSE IF StartsWith(s, word)
    THEN Remove(SubSeq(s, Len(word) + 1, Len(s)), word)
    ELSE <<Head(s)>> \o Remove(Tail(s), word)

(* line 20 *)
dangerous_chars ==
    <<<<"<">>, <<">">>, <<"\"">>, <<"'">>, <<"&">>,
      JAVASCRIPT, VBSCRIPT, ONLOAD, ONERROR>>

(* lines 23-24: the loop over dangerous_chars, from entry i on *)
RECURSIVE RemoveAll(_, _)
RemoveAll(s, i) ==
    IF i > Len(dangerous_chars) THEN s
    ELSE RemoveAll(Remove(s, dangerous_chars[i]), i + 1)

(* html.escape with quote=True, character by character *)
EscapeChar(c) ==
    CASE c = "&" -> <<"&", "a", "m", "p", ";">>
      [] c = "<" -> <<"&", "l", "t", ";">>
      [] c = ">" -> <<"&", "g", "t", ";">>
      [] c = "\"" -> <<"&", "q", "u", "o", "t", ";">>
      [] c = "'" -> <<"&", "#", "x", "2", "7", ";">>
      [] OTHER -> <<c>>

RECURSIVE html_escape(_)
html_escape(s) ==
    IF s = <<>> THEN <<>> ELSE EscapeChar(Head(s)) \o html_escape(Tail(s))

(* re.IGNORECASE on the letters of the two patterns *)
LowerChar(c) ==
    CASE c = "O" -> "o"
      [] c = "N" -> "n"
      [] OTHER -> c

LowerText(s) == [i \in 1..Len(s) |-> LowerChar(s[i])]

(* \w and \s, on the characters that texts carry *)
IsWord(c) ==
    c \in {"a", "c", "d", "e", "g", "i", "j", "l", "m", "n", "o", "p", "q",
           "r", "s", "t", "u", "v", "x", "O", "N", "2", "7"}

IsSpace(c) == c = " "

(* the length of the longest prefix of s whose characters all satisfy the
   class: word characters when word is TRUE, whitespace otherwise *)
RECURSIVE Run(_, _)
Run(s, word) ==
    IF s = <<>> THEN 0
    ELSE IF (word /\ IsWord(Head(s))) \/ (~word /\ IsSpace(Head(s)))
    THEN 1 + Run(Tail(s), word)
    ELSE 0

(* line 31, on\w+\s*= : the length of the match at the head of s, 0 when
   there is none.  \w+ and \s* are greedy and "=" is in neither class, so
   the match is the longest word run, the longest whitespace run, "=". *)
EventMatch(s) ==
    IF ~StartsWith(LowerText(s), <<"o", "n">>) THEN 0
    ELSE LET w == Run(SubSeq(s, 3, Len(s)), TRUE)
             b == Run(SubSeq(s, 3 + w, Len(s)), FALSE)
         IN  IF w >= 1 /\ Len(s) >= 3 + w + b /\ s[3 + w + b] = "="
             THEN 3 + w + b
             ELSE 0

(* the first index of s at or after i where word starts, 0 when none *)
RECURSIVE Find(_, _, _)
Find(s, word, i) ==
    IF i + Len(word) - 1 > Len(s) THEN 0
    ELSE IF StartsWith(SubSeq(s, i, Len(s)), word) THEN i
    ELSE Find(s, word, i + 1)

(* line 30, <script[^>]*>.*?</script> with DOTALL: the length of the match
   at the head of s, 0 when there is none *)
ScriptMatch(s) ==
    IF ~StartsWith(LowerText(s), SCRIPT_OPEN) THEN 0
    ELSE LET gt == Find(s, <<">">>, Len(SCRIPT_OPEN) + 1)
             close == IF gt = 0 THEN 0
                      ELSE Find(LowerText(s), SCRIPT_CLOSE, gt + 1)
         IN  IF close = 0 THEN 0 ELSE close + Len(SCRIPT_CLOSE) - 1

(* re.sub(pattern, '', s): the matches, left to right and not overlapping,
   are dropped; event selects the pattern of line 31, else that of line 30 *)
RECURSIVE re_sub(_, _)
re_sub(s, event) ==
    IF s = <<>> THEN <<>>
    ELSE LET m == IF event THEN EventMatch(s) ELSE ScriptMatch(s)
         IN  IF m > 0 THEN re_sub(SubSeq(s, m + 1, Len(s)), event)
             ELSE <<Head(s)>> \o re_sub(Tail(s), event)

(* str.strip *)
RECURSIVE lstrip(_)
lstrip(s) ==
    IF s # <<>> /\ IsSpace(Head(s)) THEN lstrip(Tail(s)) ELSE s

RECURSIVE rstrip(_)
rstrip(s) ==
    IF s # <<>> /\ IsSpace(s[Len(s)])
    THEN rstrip(SubSeq(s, 1, Len(s) - 1))
    ELSE s

strip(s) == rstrip(lstrip(s))

sanitize_input(user_input) ==
    IF user_input = <<>> THEN <<>>
    ELSE strip(re_sub(re_sub(html_escape(RemoveAll(user_input, 1)), FALSE),
                      TRUE))

---------------------------------------------------------------------------
(* Texts given to sanitize_input: up to MaxPieces pieces in a row, the pieces
   being the denylisted characters, the denylisted words and parts of them *)

Pieces ==
    {JAVASCRIPT, ONLOAD,
     <<"<">>,
     <<">">>,
     <<"\"">>,
     <<"'">>,
     <<"&">>,
     <<" ">>,
     <<"=">>,
     <<"x">>,
     <<"o">>,
     <<"o", "n">>,
     <<"O", "N">>,
     <<"o", "n", "l", "o">>,
     <<"a", "d">>,
     <<"o", "n", "e", "r", "r", "o", "r">>,
     <<"j", "a", "v", "a">>,
     <<"s", "c", "r", "i", "p", "t", ":">>,
     <<"n", "x", "=">>}

MaxPieces == 3

RECURSIVE TextsOf(_)
TextsOf(n) ==
    IF n = 0 THEN {<<>>}
    ELSE LET shorter == TextsOf(n - 1)
         IN  shorter \cup {t \o piece : t \in shorter, piece \in Pieces}

Texts == TextsOf(MaxPieces)

MaxPasses == 2

InitSanitize ==
    /\ InitState
    /\ cfg = [limit |-> BroadLimit, window |-> BroadWindow, callers |-> {}]
    /\ admitted = [ip \in RateIPs |-> <<>>]
    /\ \E text \in Texts : last = [op |-> "text", result |-> text, pass |-> 0]

(* sanitize_input is applied to the text at hand: first to the client's
   text, then to its own result *)
SanitizeCall ==
    /\ last.op \in {"text", "sanitize_input"}
    /\ last.pass < MaxPasses
    /\ last' = [op |-> "sanitize_input", user_input |-> last.result,
                result |-> sanitize_input(last.result),
                pass |-> last.pass + 1]
    /\ UNCHANGED <<now, csrf_tokens, rate_limit_data, blocked_ips, nextToken,
                   cfg, appVars, unswept, threads, admitted, issued>>

NextSanitize == SanitizeCall

SpecSanitize == InitSanitize /\ [][NextSanitize]_vars

(* C11: sanitize_input is idempotent: for every text x,
   sanitize_input(sanitize_input(x)) = sanitize_input(x); a second pass finds
   nothing left to remove. *)
C11_SanitizeIdempotent ==
    (last.op = "sanitize_input" /\ last.pass = 2) =>
        last.result = last.user_input

---------------------------------------------------------------------------
(* the times of s never decrease *)
InTimeOrder(s) == \A i, j \in 1..Len(s) : i < j => s[i] <= s[j]

(* C12: after any sequence of rate_limit calls and housekeeping runs, every
   identity's stored list is in non-decreasing time order and holds at most
   `limit` timestamps younger than `window` seconds; after an identity's
   rate_limit call its list holds no timestamp older than the window. *)
C12_RateWindow ==
    /\ \A ip \in DOMAIN rate_limit_data :
            /\ InTimeOrder(rate_limit_data[ip])
            /\ Younger(rate_limit_data[ip], now, cfg.window) <= cfg.limit
    /\ last.op = "rate_limit" =>
            /\ Has(rate_limit_data, last.ip)
            /\ \A i \in 1..Len(rate_limit_data[last.ip]) :
                    now - rate_limit_data[last.ip][i] <= cfg.window

(* a call finds the list full, some of its timestamps a window old and some
   younger: the old ones are purged and the call is admitted *)
C12_Witness ==
    /\ last.op = "rate_limit"
    /\ last.result
    /\ Len(last.pre) = cfg.limit
    /\ \E i, j \in 1..Len(last.pre) :
            /\ now - last.pre[i] >= cfg.window
            /\ now - last.pre[j] < cfg.window
    /\ Len(rate_limit_data[last.ip]) < cfg.limit

---------------------------------------------------------------------------
(* The BlockList over the life of the process: one client sends clean and
   suspicious requests, and housekeeping runs whenever it is due, as it does
   inside the admitted request of any other client. *)

BlockRequests ==
    {GetIndex, SchemeUrlPost, ScriptBodyPost,
     PostForm(NoToken,
              [name |-> GoodName, email |-> GoodEmail, year |-> "junior"],
              <<>>, <<"name=", "email=", "year=">>)}

BlockInstants == {300, 3900}

NextBlock ==
    \/ \E req \in BlockRequests : HandleRequest(ServerIP, req)
    \/ GatekeeperHousekeeping
    \/ Advance(BlockInstants)

SpecBlock == InitServer /\ [][NextBlock]_vars

(* C13: the BlockList only grows: no gatekeeper step, route handler or
   housekeeping run removes an identity from it; no request of a blocked
   identity is admitted to a route handler; an identity enters the BlockList
   only by a suspicious-pattern match on a request of its own. *)
C13_BlockListOnlyGrows ==
    [][/\ blocked_ips \subseteq blocked_ips'
       /\ blocked_ips' # blocked_ips =>
            /\ last'.op = "request"
            /\ blocked_ips' = blocked_ips \cup {last'.ip}
            /\ last'.suspiciousUrl
            /\ last'.aborted = 400
       /\ (last'.op = "request" /\ last'.ip \in blocked_ips) =>
            (~last'.handler /\ last'.gate # "admit")]_vars

(* a blocked identity is refused after a housekeeping run has emptied its
   rate-limit history *)
C13_Witness ==
    /\ last.op = "request"
    /\ last.preBlocked
    /\ ~last.handler
    /\ last.ip \in blocked_ips
    /\ ~Has(rate_limit_data, last.ip)

---------------------------------------------------------------------------
(* Housekeeping against the run in which it never executes: every operation
   acts on the stores of the process and on the unswept stores alike, and
   clean_session_data acts on the stores of the process only. *)

CleanConfigs ==
    {[limit |-> 5, window |-> 60, callers |-> {"10.0.0.1"}],
     [limit |-> 2, window |-> 300, callers |-> {"10.0.0.1"}]}

CleanInstants == {60, 300, 3601}

CleanSid == "s1"

InitClean ==
    /\ InitCommon
    /\ cfg \in CleanConfigs
    /\ admitted = [ip \in RateIPs |-> <<>>]

BothRateLimit(ip) ==
    LET r == rate_limit(rate_limit_data, ip, cfg.limit, cfg.window, now)
        u == rate_limit(unswept.rate_limit_data, ip, cfg.limit, cfg.window,
                        now)
    IN  /\ rate_limit_data' = r.data
        /\ unswept' = [unswept EXCEPT !.rate_limit_data = u.data]
        /\ admitted' = IF r.result
                        THEN [admitted EXCEPT ![ip] = Append(@, now)]
                        ELSE admitted
        /\ last' = [op |-> "rate_limit", ip |-> ip, result |-> r.result,
                    unswept |-> u.result,
                    swept |-> ~Has(rate_limit_data, ip)
                              /\ Has(unswept.rate_limit_data, ip)]
        /\ UNCHANGED <<now, csrf_tokens, blocked_ips, nextToken, cfg, appVars,
                       threads, issued>>

BothGenerate(sid) ==
    /\ nextToken < MaxTokens
    /\ LET token == token_urlsafe(nextToken)
       IN  /\ nextToken' = token
           /\ csrf_tokens' = generate_csrf_token(csrf_tokens, sid, token, now)
           /\ unswept' = [unswept EXCEPT !.csrf_tokens =
                            generate_csrf_token(@, sid, token, now)]
           /\ last' = [op |-> "generate_csrf_token", sid |-> sid,
                       token |-> token]
    /\ UNCHANGED <<now, rate_limit_data, blocked_ips, cfg, appVars, threads,
                   admitted, issued>>

BothValidate(sid, token) ==
    LET r == validate_csrf_token(csrf_tokens, sid, token, now)
        u == validate_csrf_token(unswept.csrf_tokens, sid, token, now)
    IN  /\ csrf_tokens' = r.tokens
        /\ unswept' = [unswept EXCEPT !.csrf_tokens = u.tokens]
        /\ last' = [op |-> "validate_csrf_token", sid |-> sid,
                    result |-> r.result, unswept |-> u.result,
                    swept |-> ~Has(csrf_tokens, sid)
                              /\ Has(unswept.csrf_tokens, sid)]
        /\ UNCHANGED <<now, rate_limit_data, blocked_ips, nextToken, cfg,
                       appVars, threads, admitted, issued>>

(* secure_server.py 67 *)
BothBlock(ip) ==
    /\ ip \notin blocked_ips
    /\ blocked_ips' = blocked_ips \cup {ip}
    /\ unswept' = [unswept EXCEPT !.blocked_ips = @ \cup {ip}]
    /\ last' = [op |-> "block", ip |-> ip]
    /\ UNCHANGED <<now, csrf_tokens, rate_limit_data, nextToken, cfg, appVars,
                   threads, admitted, issued>>

NextClean ==
    \/ \E ip \in cfg.callers : BothRateLimit(ip)
    \/ BothGenerate(CleanSid)
    \/ \E token \in (1..MaxTokens) \cup {NoToken} :
            BothValidate(CleanSid, token)
    \/ BothBlock("10.0.0.2")
    \/ CleanSessionData
    \/ Advance(CleanInstants)

SpecClean == InitClean /\ [][NextClean]_vars

(* the step leaves in the CSRF store exactly the records of age at most
   3600 s, unchanged *)
SweepsCsrf ==
    /\ DOMAIN csrf_tokens' \subseteq DOMAIN csrf_tokens
    /\ \A sid \in DOMAIN csrf_tokens :
            IF now - csrf_tokens[sid].timestamp > 3600
            THEN ~Has(csrf_tokens', sid)
            ELSE Has(csrf_tokens', sid)
                 /\ csrf_tokens'[sid] = csrf_tokens[sid]

(* the step leaves of every identity's list exactly the timestamps younger
   than 300 s, and also those of age 300 s when atBoundary is TRUE; an
   identity with none left has no list *)
SweepsRate(atBoundary) ==
    /\ DOMAIN rate_limit_data' \subseteq DOMAIN rate_limit_data
    /\ \A ip \in DOMAIN rate_limit_data :
            LET kept == SelectSeq(rate_limit_data[ip],
                                  LAMBDA e : \/ now - e < 300
                                             \/ atBoundary /\ now - e = 300)
            IN  IF kept = <<>>
                THEN ~Has(rate_limit_data', ip)
                ELSE Has(rate_limit_data', ip) /\ rate_limit_data'[ip] = kept

(* every rate_limit and validate_csrf_token call returns what it returns in
   the run without housekeeping, and the BlockList is the same in both *)
SameResults ==
    /\ last'.op \in {"rate_limit", "validate_csrf_token"} =>
            last'.result = last'.unswept
    /\ blocked_ips' = unswept'.blocked_ips

(* C14 as stated: a housekeeping run removes only CSRF records older than
   3600 s and rate-limit timestamps older than 300 s, dropping identities
   whose list becomes empty; for limiter windows of at most 300 s every
   later rate_limit and validate_csrf_token call returns what it returns in
   the run where housekeeping never executed; the BlockList is unchanged. *)
C14_Original ==
    [][/\ last'.op = "clean_session_data" =>
            (SweepsCsrf /\ SweepsRate(TRUE) /\ blocked_ips' = blocked_ips)
       /\ SameResults]_vars

(* C14 amended: as stated, except that a housekeeping run removes the
   rate-limit timestamps of age 300 s or more, keeping those younger than
   300 s. *)
C14_Amended ==
    [][/\ last'.op = "clean_session_data" =>
            (SweepsCsrf /\ SweepsRate(FALSE) /\ blocked_ips' = blocked_ips)
       /\ SameResults]_vars

(* under the 300 s window, with an identity blocked, validate_csrf_token is
   called after housekeeping removed the session's record and the
   identity's list, both of which the unswept run still holds *)
C14_Witness ==
    /\ last.op = "validate_csrf_token"
    /\ last.swept
    /\ cfg.window = 300
    /\ blocked_ips # {}
    /\ ~Has(rate_limit_data, "10.0.0.1")
    /\ Has(unswept.rate_limit_data, "10.0.0.1")

=============================================================================
